---- MODULE Spec2Model ----
(***************************************************************************)
(* Model of analyze.js (count-docs): the public-API analyzer.  main()      *)
(* seeds one worklist (fileQueue) from the manifest entry points and the   *)
(* module-federation exposures, drains it through parseJsFile/parseTsFile, *)
(* aggregates the three buckets (js, ts, mf) with processResults and       *)
(* emits the report.  Asynchronous code is cut at its awaits: one action   *)
(* is one synchronous segment of main() or of a processExposesObject call  *)
(* that parseMfExports starts without awaiting it.                         *)
(***************************************************************************)
EXTENDS Naturals, Sequences, FiniteSets, TLC

VARIABLES
    argv,              \* command line: packagePath, --mf-exposes, --mf-config
    hasManifest,       \* package.json exists under the package root
    pkgEntries,        \* findEntryPoints' result: [js, ts], existing files only
    pc,                \* where main() is suspended
    mfExposesInput,    \* main's mfExposesInput
    mfConfigPathInput, \* main's mfConfigPathInput
    mfBranch,          \* which branch of lines 499-511 ran
    configFiles,       \* parseMfExports' configFiles
    cfgIdx,            \* index of the config file parseMfExports is reading
    tasks,             \* processExposesObject calls started by parseMfExports
    fileQueue,         \* the worklist, a Set in insertion order
    processedFiles,    \* the processed Set
    currentFile,       \* currentFile of the loop iteration in progress
    newFiles,          \* newFilesToAnalyze of the extractor call in progress
    results,           \* results.js / results.ts / results.mf
    errors,            \* results.errors
    rawResults,        \* the buckets as processResults found them
    written,           \* the buckets as fs.writeJson serialised them
    printed,           \* the buckets as the final console.log serialised them
    dispatchCount,     \* per file: how often the loop dispatched it
    takes,             \* per file: how often the loop removed it from fileQueue
    fatal,             \* what the catch of lines 542-545 caught, if anything
    nodeGiven,        \* isExposesObject alone: the object literal it is given
    exposesLike,       \* isExposesObject alone: what it returned
    fsFiles,           \* resolveModulePath alone: the paths that are files
    fsDirs,            \* resolveModulePath alone: the paths that are directories
    extsGiven,        \* resolveModulePath alone: its extensions argument
    resolved,          \* resolveModulePath alone: what it returned
    exportsSeen,       \* parseTsFile's export loop alone: the symbols handled so far
    reExportedApis,    \* results.reExportedApis
    reExports,         \* the loop alone: per file, what its relative re-exports resolve to
    fileExports,       \* the loop alone: per file, the exports its extractor finds
    throwing,          \* the loop alone: the files whose extractor call throws
    seedOrders,        \* the loop alone: the seeds, in the order of each of two runs
    firstRun           \* the loop alone: what the first of the two runs ended with

mainVars == <<argv, hasManifest, pkgEntries, pc, mfExposesInput, mfConfigPathInput,
              mfBranch, configFiles, cfgIdx, tasks, fileQueue, processedFiles,
              currentFile, newFiles, results, errors, rawResults, written, printed,
              dispatchCount, takes, fatal>>

walkVars == <<reExports, fileExports, throwing, seedOrders, firstRun>>

unitVars == <<nodeGiven, exposesLike, fsFiles, fsDirs, extsGiven, resolved,
              exportsSeen, reExportedApis, walkVars>>

vars == <<mainVars, unitVars>>

Range(s) == {s[i] : i \in 1..Len(s)}

\* a mutant of SetAdd: a list, which takes a value it already holds
SetAddNoDedup(s, x) == Append(s, x)

\* Set.prototype.add on a Set kept in insertion order
SetAdd(s, x) == IF x \in Range(s) THEN s ELSE Append(s, x)

\* a mutant of SetAddAll: only the first of the values is added
SetAddFirst(s, xs) == IF xs = <<>> THEN s ELSE SetAdd(s, Head(xs))

RECURSIVE SetAddAll(_, _)
\* newFiles.forEach(file => fileQueue.add(file))
SetAddAll(s, xs) ==
    IF xs = <<>> THEN s ELSE SetAddAll(SetAdd(s, Head(xs)), Tail(xs))

-----------------------------------------------------------------------------
(* Paths.  A path is [dir, base, ext]: dir is its directory as a sequence  *)
(* of segments, absolute when it starts with "/".                          *)

RECURSIVE NormalizeSegs(_, _)
NormalizeSegs(acc, segs) ==
    IF segs = <<>> THEN acc
    ELSE IF Head(segs) = "." THEN NormalizeSegs(acc, Tail(segs))
    ELSE IF Head(segs) = ".."
         THEN NormalizeSegs(IF Len(acc) > 1 THEN SubSeq(acc, 1, Len(acc) - 1) ELSE acc,
                            Tail(segs))
    ELSE NormalizeSegs(Append(acc, Head(segs)), Tail(segs))

\* path.resolve(from, to)
PathResolve(from, to) ==
    IF to.dir # <<>> /\ Head(to.dir) = "/"
    THEN [to EXCEPT !.dir = NormalizeSegs(<<>>, to.dir)]
    ELSE [to EXCEPT !.dir = NormalizeSegs(<<>>, from \o to.dir)]

\* path.extname(p)
PathExtname(p) == p.ext

PackageRoot == <<"/", "pkg">>

FileA == [dir |-> <<"/", "pkg">>, base |-> "a", ext |-> ".js"]
FileB == [dir |-> <<"/", "pkg">>, base |-> "b", ext |-> ".ts"]
FileC == [dir |-> <<"/", "pkg">>, base |-> "c", ext |-> ".vue"]

\* the files on disk under the package root
ExistingFiles == {FileA, FileB, FileC}

\* fs.pathExists(p)
PathExists(p) == p \in ExistingFiles

NoFile == [dir |-> <<>>, base |-> "", ext |-> ""]

-----------------------------------------------------------------------------
(* The three buckets of results.                                           *)

Buckets == {"js", "ts", "mf"}

EmptyBucket == [total |-> 0, undocumented |-> 0, documented |-> 0,
                list |-> <<>>, undocumentedList |-> <<>>, documentedList |-> <<>>]

EmptyResults == [b \in Buckets |-> EmptyBucket]

\* a mutant of PushApi: a name that is in the list already is not recorded again
PushApiFirstWins(res, key, apiName, hasDocs) ==
    IF apiName \in Range(res[key].list) THEN res
    ELSE [res EXCEPT ![key].list = Append(@, apiName),
                     ![key].undocumentedList = IF hasDocs THEN @ ELSE Append(@, apiName),
                     ![key].documentedList = IF hasDocs THEN Append(@, apiName) ELSE @]

\* results[key].list.push(apiName), then the documented or the undocumented push
PushApi(res, key, apiName, hasDocs) ==
    [res EXCEPT ![key].list = Append(@, apiName),
                ![key].undocumentedList = IF hasDocs THEN @ ELSE Append(@, apiName),
                ![key].documentedList = IF hasDocs THEN Append(@, apiName) ELSE @]

RECURSIVE UniqueFrom(_, _)
UniqueFrom(acc, list) ==
    IF list = <<>> THEN acc ELSE UniqueFrom(SetAdd(acc, Head(list)), Tail(list))

\* a mutant of Unique: the array is copied without going through a Set
UniqueNoDedup(list) == list

\* [...new Set(list)]
Unique(list) == UniqueFrom(<<>>, list)

\* a mutant of processResults: the .filter(name => !docSet.has(name)) is lost
processResultsNoFilter(b) ==
    LET uniqueList == Unique(b.list)
        uniqueDocs == Unique(b.documentedList)
        uniqueUndocumented == Unique(b.undocumentedList)
    IN  [total |-> Len(uniqueList), undocumented |-> Len(uniqueUndocumented),
         documented |-> Len(uniqueDocs), list |-> uniqueList,
         undocumentedList |-> uniqueUndocumented, documentedList |-> uniqueDocs]

\* processResults(key), on the bucket results[key]
processResults(b) ==
    LET uniqueList == Unique(b.list)
        uniqueDocs == Unique(b.documentedList)
        docSet == Range(uniqueDocs)
        uniqueUndocumented ==
            SelectSeq(Unique(b.undocumentedList), LAMBDA name : name \notin docSet)
    IN  [total |-> Len(uniqueList), undocumented |-> Len(uniqueUndocumented),
         documented |-> Len(uniqueDocs), list |-> uniqueList,
         undocumentedList |-> uniqueUndocumented, documentedList |-> uniqueDocs]

-----------------------------------------------------------------------------
(* Exposure maps.  A property of an object literal is [type, key, value];  *)
(* key is the text of prop.key.name || prop.key.value as a sequence of     *)
(* characters, value is [type, path].  An entry of the --mf-exposes JSON   *)
(* has the same shape, with value.type "string" for a string.              *)

\* String.prototype.startsWith
StartsWith(s, prefix) ==
    Len(s) >= Len(prefix) /\ SubSeq(s, 1, Len(prefix)) = prefix

DotSlash == <<".", "/">>

RelPath(base, ext) == [dir |-> <<".">>, base |-> base, ext |-> ext]

StringLiteral(p) == [type |-> "StringLiteral", path |-> p]
OtherValue == [type |-> "CallExpression", path |-> NoFile]

Prop(key, value) == [type |-> "ObjectProperty", key |-> key, value |-> value]
SpreadElement == [type |-> "SpreadElement", key |-> <<>>, value |-> OtherValue]

ObjectExpression(props) == [type |-> "ObjectExpression", properties |-> props]

RECURSIVE CountKeys(_, _, _, _)
\* the for loop of isExposesObject, from property i on
CountKeys(props, i, exposeLikeKeys, totalKeys) ==
    IF i > Len(props)
    THEN [exposeLikeKeys |-> exposeLikeKeys, totalKeys |-> totalKeys]
    ELSE IF props[i].type = "ObjectProperty"
         THEN CountKeys(props, i + 1,
                        IF props[i].key # <<>> /\ StartsWith(props[i].key, DotSlash)
                        THEN exposeLikeKeys + 1 ELSE exposeLikeKeys,
                        totalKeys + 1)
         ELSE CountKeys(props, i + 1, exposeLikeKeys, totalKeys)

\* a mutant of isExposesObject: >= 0.5 instead of > 0.5
isExposesObjectAtLeastHalf(objectNode) ==
    IF objectNode.type # "ObjectExpression" THEN FALSE
    ELSE IF Len(objectNode.properties) = 0 THEN FALSE
    ELSE LET c == CountKeys(objectNode.properties, 1, 0, 0)
         IN  c.totalKeys > 0 /\ 2 * c.exposeLikeKeys >= c.totalKeys

\* isExposesObject(objectNode); exposeLikeKeys / totalKeys > 0.5 is decided
\* exactly by 2 * exposeLikeKeys > totalKeys
isExposesObject(objectNode) ==
    IF objectNode.type # "ObjectExpression" THEN FALSE
    ELSE IF Len(objectNode.properties) = 0 THEN FALSE
    ELSE LET c == CountKeys(objectNode.properties, 1, 0, 0)
         IN  c.totalKeys > 0 /\ 2 * c.exposeLikeKeys > c.totalKeys

Error(msg, file) == [msg |-> msg, file |-> file]

RECURSIVE processExposesObjectLiteral(_, _, _, _, _)
\* processExposesObjectLiteral from entry i on; main awaits the whole call
processExposesObjectLiteral(entries, i, res, queue, errs) ==
    IF i > Len(entries) THEN [results |-> res, fileQueue |-> queue, errors |-> errs]
    ELSE LET apiName == entries[i].key
             filePath == entries[i].value
             res2 == PushApi(res, "mf", apiName, FALSE)
             absolutePath == PathResolve(PackageRoot, filePath.path)
         IN  IF filePath.type # "string"
             THEN processExposesObjectLiteral(entries, i + 1, res2, queue, errs)
             ELSE IF PathExists(absolutePath)
                  THEN processExposesObjectLiteral(entries, i + 1, res2,
                                                   SetAdd(queue, absolutePath), errs)
                  ELSE processExposesObjectLiteral(entries, i + 1, res2, queue,
                           Append(errs, Error("MF exposes (from JSON) missing file",
                                              absolutePath)))

RECURSIVE ExposesRun(_, _, _)
\* processExposesObject from property i on, up to its next await
\* (fs.pathExists of a string target) or its end
ExposesRun(props, i, res) ==
    IF i > Len(props) THEN [at |-> i, results |-> res]
    ELSE IF props[i].type # "ObjectProperty" THEN ExposesRun(props, i + 1, res)
    ELSE IF props[i].key = <<>> THEN ExposesRun(props, i + 1, res)
    ELSE LET res2 == PushApi(res, "mf", props[i].key, FALSE)
         IN  IF props[i].value.type = "StringLiteral"
             THEN [at |-> i, results |-> res2]
             ELSE ExposesRun(props, i + 1, res2)

-----------------------------------------------------------------------------
(* Inputs of a run: the command line, the configuration files on disk and  *)
(* what each module exports.                                               *)

KeyRoot == <<".", "/">>
KeyA == <<".", "/", "A">>
KeyB == <<".", "/", "B">>
KeyM == <<".", "/", "M">>
KeyName == <<"n", "a", "m", "e">>

JsonString(p) == [type |-> "string", path |-> p]
JsonNumber == [type |-> "number", path |-> NoFile]
Entry(key, value) == [key |-> key, value |-> value]

NoExposes == [given |-> FALSE, parses |-> FALSE, entries |-> <<>>]

\* values of --mf-exposes: the README's mapping, a mapping with an existing, a
\* missing and a non-string target, and text that JSON.parse rejects
ExposesArgs ==
    { [given |-> TRUE, parses |-> TRUE,
       entries |-> << Entry(KeyRoot, JsonString(RelPath("b", ".ts"))) >>],
      [given |-> TRUE, parses |-> TRUE,
       entries |-> << Entry(KeyA, JsonString(RelPath("a", ".js"))),
                      Entry(KeyM, JsonString(RelPath("m", ".js"))),
                      Entry(KeyName, JsonNumber) >>],
      [given |-> TRUE, parses |-> FALSE, entries |-> <<>>] }

CfgPath(base) == [dir |-> <<"/", "pkg">>, base |-> base, ext |-> ".js"]

CfgExact == CfgPath("webpack.config.exact")
CfgHeur == CfgPath("webpack.config.heur")
CfgPlain == CfgPath("webpack.config.plain")
CfgBroken == CfgPath("webpack.config.broken")
CfgUnreadable == CfgPath("webpack.config.unreadable")
CfgMissing == CfgPath("webpack.config.missing")

\* the configuration files on disk
ConfigPaths == {CfgExact, CfgHeur, CfgPlain, CfgBroken, CfgUnreadable}

Obj(underExposesKey, props) ==
    [underExposesKey |-> underExposesKey, node |-> ObjectExpression(props)]

\* what safeReadFile and babelParse give for a configuration file: its object
\* literals in traversal order, each marked when it is the value of a property
\* named exposes
ConfigContent(path) ==
    CASE path = CfgExact ->
           [readable |-> TRUE, parses |-> TRUE,
            objects |-> << Obj(FALSE, << Prop(KeyName, OtherValue) >>),
                           Obj(TRUE, << Prop(KeyA, StringLiteral(RelPath("a", ".js"))),
                                        Prop(KeyM, StringLiteral(RelPath("m", ".js"))),
                                        Prop(KeyB, StringLiteral(RelPath("b", ".ts"))) >>) >>]
      [] path = CfgHeur ->
           [readable |-> TRUE, parses |-> TRUE,
            objects |-> << Obj(FALSE, << Prop(KeyName, OtherValue),
                                         Prop(KeyA, StringLiteral(RelPath("a", ".js"))) >>),
                           Obj(FALSE, << SpreadElement,
                                         Prop(KeyRoot, OtherValue),
                                         Prop(KeyB, StringLiteral(RelPath("c", ".vue"))),
                                         Prop(KeyName, OtherValue) >>) >>]
      [] path = CfgPlain ->
           [readable |-> TRUE, parses |-> TRUE,
            objects |-> << Obj(FALSE, << Prop(KeyName, OtherValue) >>) >>]
      [] path = CfgBroken ->
           [readable |-> TRUE, parses |-> FALSE, objects |-> <<>>]
      [] OTHER ->
           [readable |-> FALSE, parses |-> FALSE, objects |-> <<>>]

NoConfig == [given |-> FALSE, path |-> NoFile]

ConfigArgs == { [given |-> TRUE, path |-> CfgExact],
                [given |-> TRUE, path |-> CfgMissing] }

\* results of the glob of line 320
GlobResults ==
    { <<>>, <<CfgExact>>, <<CfgHeur>>, <<CfgPlain>>, <<CfgExact, CfgHeur>>,
      <<CfgUnreadable, CfgExact>>, <<CfgBroken, CfgHeur>> }

JsExport(name, hasDocs) == [name |-> name, hasDocs |-> hasDocs]

\* the exports a value-dialect module can have, in source order: name and
\* hasValidJSDocBabel
JsExports ==
    { <<>>,
      << JsExport("foo", TRUE) >>,
      << JsExport("default", FALSE), JsExport("foo", FALSE) >> }

TsSymbol(name, typeOnly, valueFlag, typeFlag, hasDocs) ==
    [name |-> name, typeOnly |-> typeOnly, valueFlag |-> valueFlag,
     typeFlag |-> typeFlag, hasDocs |-> hasDocs]

\* the exported symbols a typed module can have: name, isTypeOnlyExportSymbol,
\* the Value and Type bits of targetSymbol.flags, hasValidJSDoc
TsExports ==
    { <<>>,
      << TsSymbol("foo", FALSE, TRUE, FALSE, FALSE) >>,
      << TsSymbol("foo", TRUE, TRUE, TRUE, TRUE) >>,
      << TsSymbol("Bar", FALSE, TRUE, TRUE, TRUE),
         TsSymbol("Ns", FALSE, FALSE, FALSE, FALSE),
         TsSymbol("foo", FALSE, FALSE, TRUE, FALSE) >> }

\* what the relative re-exports of a module can resolve to
NewFileSets == { <<>>, <<FileA>>, <<FileB>>, <<FileC, FileB>> }

JsExtensions == {".js", ".mjs", ".cjs"}
TsExtensions == {".ts", ".tsx", ".d.ts"}

RECURSIVE PushJsExports(_, _)
\* the traverse of parseJsFile over the module's export declarations
PushJsExports(res, exports) ==
    IF exports = <<>> THEN res
    ELSE PushJsExports(PushApi(res, "js", Head(exports).name, Head(exports).hasDocs),
                       Tail(exports))

\* the body of exports.forEach in parseTsFile, for one symbol
PushTsSymbol(res, symbol) ==
    LET isValue == ~symbol.typeOnly /\ symbol.valueFlag
        isType == symbol.typeOnly \/ symbol.typeFlag
        res2 == IF isValue THEN PushApi(res, "js", symbol.name, symbol.hasDocs) ELSE res
    IN  IF isType THEN PushApi(res2, "ts", symbol.name, symbol.hasDocs) ELSE res2

RECURSIVE PushTsExports(_, _)
PushTsExports(res, exports) ==
    IF exports = <<>> THEN res
    ELSE PushTsExports(PushTsSymbol(res, Head(exports)), Tail(exports))

-----------------------------------------------------------------------------
(* main()                                                                  *)

inputs == <<argv, hasManifest, pkgEntries>>

NoFatal == [caught |-> FALSE, file |-> NoFile, queue |-> <<>>, processed |-> {},
            nerrors |-> 0]

NoReport == [emitted |-> FALSE, buckets |-> EmptyResults]

\* the variables of main() before it starts, with main() at pc0
MainAt(pc0) ==
    /\ pc = pc0
    /\ mfExposesInput = NoExposes
    /\ mfConfigPathInput = NoConfig
    /\ mfBranch = "none"
    /\ configFiles = <<>>
    /\ cfgIdx = 0
    /\ tasks = <<>>
    /\ fileQueue = <<>>
    /\ processedFiles = {}
    /\ currentFile = NoFile
    /\ newFiles = <<>>
    /\ results = EmptyResults
    /\ errors = <<>>
    /\ rawResults = EmptyResults
    /\ written = NoReport
    /\ printed = NoReport
    /\ dispatchCount = [f \in ExistingFiles |-> 0]
    /\ takes = [f \in ExistingFiles |-> 0]
    /\ fatal = NoFatal

NoInputs ==
    /\ argv = [packagePath |-> FALSE, mfExposes |-> NoExposes, mfConfig |-> NoConfig]
    /\ hasManifest = FALSE
    /\ pkgEntries = [js |-> <<>>, ts |-> <<>>]

NoNode == [type |-> "null", properties |-> <<>>]
NotApplied == [applied |-> FALSE, value |-> FALSE]
NotResolved == [done |-> FALSE, found |-> FALSE, path |-> ""]

ExposesUnitIdle == nodeGiven = NoNode /\ exposesLike = NotApplied
ResolveUnitIdle ==
    fsFiles = {} /\ fsDirs = {} /\ extsGiven = <<>> /\ resolved = NotResolved
OriginUnitIdle == exportsSeen = <<>> /\ reExportedApis = {}

NoOutcome == [done |-> FALSE, thrown |-> FALSE, processed |-> {}, buckets |-> EmptyResults]

WalkUnitIdle ==
    /\ reExports = [f \in ExistingFiles |-> <<>>]
    /\ fileExports = [f \in ExistingFiles |-> <<>>]
    /\ throwing = {}
    /\ seedOrders = << <<>>, <<>> >>
    /\ firstRun = NoOutcome

MainInit ==
    /\ argv \in [packagePath : BOOLEAN,
                 mfExposes : ExposesArgs \cup {NoExposes},
                 mfConfig : ConfigArgs \cup {NoConfig}]
    /\ hasManifest \in BOOLEAN
    /\ pkgEntries \in [js : {<<>>, <<FileA>>}, ts : {<<>>, <<FileB>>}]
    /\ MainAt("start")

Init == MainInit /\ ExposesUnitIdle /\ ResolveUnitIdle /\ OriginUnitIdle /\ WalkUnitIdle

\* a mutant of SelectMfArgs: the flags exclude each other, and with both given
\* the override is dropped
SelectMfArgsExclusive(args) ==
    IF args.mfExposes.given /\ ~args.mfConfig.given
    THEN [mfExposesInput |-> args.mfExposes, mfConfigPathInput |-> NoConfig]
    ELSE [mfExposesInput |-> NoExposes, mfConfigPathInput |-> args.mfConfig]

\* lines 453-461: a flag is given when it is followed by a non-empty argument
SelectMfArgs(args) ==
    IF args.mfExposes.given
    THEN [mfExposesInput |-> args.mfExposes, mfConfigPathInput |-> NoConfig]
    ELSE IF args.mfConfig.given
         THEN [mfExposesInput |-> NoExposes, mfConfigPathInput |-> args.mfConfig]
         ELSE [mfExposesInput |-> NoExposes, mfConfigPathInput |-> NoConfig]

\* lines 452-479: the arguments, and the two exits before any analysis
ParseArgs ==
    /\ pc = "start"
    /\ mfExposesInput' = SelectMfArgs(argv).mfExposesInput
    /\ mfConfigPathInput' = SelectMfArgs(argv).mfConfigPathInput
    /\ pc' = IF argv.packagePath /\ hasManifest THEN "entries" ELSE "exit"
    /\ UNCHANGED <<inputs, unitVars, mfBranch, configFiles, cfgIdx, tasks, fileQueue,
                   processedFiles, currentFile, newFiles, results, errors, rawResults,
                   written, printed, dispatchCount, takes, fatal>>

\* lines 480-497: findEntryPoints seeds the worklist
SeedQueue ==
    /\ pc = "entries"
    /\ fileQueue' = SetAddAll(<<>>, pkgEntries.js \o pkgEntries.ts)
    /\ pc' = "mf"
    /\ UNCHANGED <<inputs, unitVars, mfExposesInput, mfConfigPathInput, mfBranch, configFiles,
                   cfgIdx, tasks, processedFiles, currentFile, newFiles, results, errors,
                   rawResults, written, printed, dispatchCount, takes, fatal>>

\* lines 499-508: the mapping given with --mf-exposes
ExplicitExposes ==
    /\ pc = "mf"
    /\ mfExposesInput.given
    /\ mfBranch' = "explicit"
    /\ \/ /\ mfExposesInput.parses
          /\ LET r == processExposesObjectLiteral(mfExposesInput.entries, 1, results,
                                                  fileQueue, errors)
             IN  /\ results' = r.results
                 /\ fileQueue' = r.fileQueue
                 /\ errors' = r.errors
       \/ /\ ~mfExposesInput.parses
          /\ errors' = Append(errors, Error("--mf-exposes failed", NoFile))
          /\ UNCHANGED <<results, fileQueue>>
    /\ pc' = "loop"
    /\ UNCHANGED <<inputs, unitVars, mfExposesInput, mfConfigPathInput, configFiles, cfgIdx, tasks,
                   processedFiles, currentFile, newFiles, rawResults, written, printed,
                   dispatchCount, takes, fatal>>

\* lines 509-511 and 308-329: parseMfExports finds its configuration files
DiscoverConfigs ==
    /\ pc = "mf"
    /\ ~mfExposesInput.given
    /\ mfBranch' = "discovery"
    /\ \/ /\ mfConfigPathInput.given
          /\ mfConfigPathInput.path \in ConfigPaths
          /\ configFiles' = <<mfConfigPathInput.path>>
          /\ cfgIdx' = 1
          /\ pc' = "scan"
          /\ UNCHANGED errors
       \/ /\ mfConfigPathInput.given
          /\ mfConfigPathInput.path \notin ConfigPaths
          /\ errors' = Append(errors, Error("MF config path not found",
                                            mfConfigPathInput.path))
          /\ pc' = "loop"
          /\ UNCHANGED <<configFiles, cfgIdx>>
       \/ /\ ~mfConfigPathInput.given
          /\ \E g \in GlobResults :
                /\ configFiles' = g
                /\ cfgIdx' = IF g = <<>> THEN 0 ELSE 1
                /\ pc' = IF g = <<>> THEN "loop" ELSE "scan"
          /\ UNCHANGED errors
    /\ UNCHANGED <<inputs, unitVars, mfExposesInput, mfConfigPathInput, tasks, fileQueue,
                   processedFiles, currentFile, newFiles, results, rawResults, written,
                   printed, dispatchCount, takes, fatal>>

\* index of the first object satisfying P, 0 when there is none
FirstIndex(objs, P(_)) ==
    IF \E i \in 1..Len(objs) : P(objs[i])
    THEN CHOOSE i \in 1..Len(objs) : P(objs[i]) /\ \A j \in 1..(i - 1) : ~P(objs[j])
    ELSE 0

IsExactMatch(o) == o.underExposesKey
IsHeuristicMatch(o) == isExposesObject(o.node)

\* the object the two traversals of lines 382-405 hand to processExposesObject:
\* the first value of a key named exposes, else the first exposure-like object
FoundExposes(objs) ==
    IF FirstIndex(objs, IsExactMatch) # 0 THEN FirstIndex(objs, IsExactMatch)
    ELSE FirstIndex(objs, IsHeuristicMatch)

\* lines 365-406, one configuration file: read, parse, traverse.  The call of
\* processExposesObject is not awaited: it runs up to its first await inside
\* the traversal and is left pending as a task
ScanConfig ==
    /\ pc = "scan"
    /\ LET configPath == configFiles[cfgIdx]
           cfg == ConfigContent(configPath)
           found == FoundExposes(cfg.objects)
       IN  \/ /\ ~cfg.readable
              /\ errors' = Append(errors, Error("Could not read Webpack config", configPath))
              /\ UNCHANGED <<results, tasks>>
           \/ /\ cfg.readable /\ ~cfg.parses
              /\ errors' = Append(errors, Error("Babel parse error", configPath))
              /\ UNCHANGED <<results, tasks>>
           \/ /\ cfg.readable /\ cfg.parses /\ found = 0
              /\ UNCHANGED <<results, tasks, errors>>
           \/ /\ cfg.readable /\ cfg.parses /\ found # 0
              /\ LET props == cfg.objects[found].node.properties
                     run == ExposesRun(props, 1, results)
                 IN  /\ results' = run.results
                     /\ tasks' = Append(tasks, [properties |-> props, at |-> run.at])
              /\ UNCHANGED errors
    /\ cfgIdx' = cfgIdx + 1
    /\ pc' = IF cfgIdx = Len(configFiles) THEN "loop" ELSE "scan"
    /\ UNCHANGED <<inputs, unitVars, mfExposesInput, mfConfigPathInput, mfBranch, configFiles,
                   fileQueue, processedFiles, currentFile, newFiles, rawResults, written,
                   printed, dispatchCount, takes, fatal>>

\* main() is suspended on the file system, so that a pending callback can run
IOWait == pc \in {"scan", "extract", "resolve", "ensureDir", "writeFile", "done"}

\* lines 341-347 and 332-340: a pending processExposesObject resumes after its
\* fs.pathExists and runs up to its next await
ResumeExposes(t) ==
    /\ IOWait
    /\ tasks[t].at <= Len(tasks[t].properties)
    /\ LET props == tasks[t].properties
           absolutePath == PathResolve(PackageRoot, props[tasks[t].at].value.path)
           run == ExposesRun(props, tasks[t].at + 1, results)
       IN  /\ \/ /\ PathExists(absolutePath)
                 /\ fileQueue' = SetAdd(fileQueue, absolutePath)
                 /\ UNCHANGED errors
              \/ /\ ~PathExists(absolutePath)
                 /\ errors' = Append(errors, Error("MF exposes missing file", absolutePath))
                 /\ UNCHANGED fileQueue
           /\ results' = run.results
           /\ tasks' = [tasks EXCEPT ![t].at = run.at]
    /\ UNCHANGED <<inputs, unitVars, pc, mfExposesInput, mfConfigPathInput, mfBranch, configFiles,
                   cfgIdx, processedFiles, currentFile, newFiles, rawResults, written,
                   printed, dispatchCount, takes, fatal>>

-----------------------------------------------------------------------------
(* The GraphWalker loop, lines 520-539.                                    *)

\* a mutant of AlreadyProcessed: the membership test of line 524 is lost
AlreadyProcessedNever(file) == FALSE

\* processedFiles.has(currentFile)
AlreadyProcessed(file) == file \in processedFiles

\* fileQueue.values().next().value
NextFile == Head(fileQueue)

\* line 521: the worklist is empty and the loop ends
LoopExit ==
    /\ pc = "loop"
    /\ fileQueue = <<>>
    /\ pc' = "aggregate"
    /\ UNCHANGED <<inputs, unitVars, mfExposesInput, mfConfigPathInput, mfBranch, configFiles,
                   cfgIdx, tasks, fileQueue, processedFiles, currentFile, newFiles,
                   results, errors, rawResults, written, printed, dispatchCount, takes,
                   fatal>>

\* lines 522-524: a file that was handled before is dropped
LoopSkip ==
    /\ pc = "loop"
    /\ fileQueue # <<>>
    /\ AlreadyProcessed(NextFile)
    /\ currentFile' = NextFile
    /\ fileQueue' = Tail(fileQueue)
    /\ takes' = [takes EXCEPT ![NextFile] = @ + 1]
    /\ UNCHANGED <<inputs, unitVars, pc, mfExposesInput, mfConfigPathInput, mfBranch, configFiles,
                   cfgIdx, tasks, processedFiles, newFiles, results, errors, rawResults,
                   written, printed, dispatchCount, fatal>>

\* lines 522-533: a new file goes to parseJsFile or parseTsFile, which suspends
\* on reading it
LoopDispatch ==
    /\ pc = "loop"
    /\ fileQueue # <<>>
    /\ ~AlreadyProcessed(NextFile)
    /\ PathExtname(NextFile) \in JsExtensions \cup TsExtensions
    /\ currentFile' = NextFile
    /\ fileQueue' = Tail(fileQueue)
    /\ processedFiles' = processedFiles \cup {NextFile}
    /\ takes' = [takes EXCEPT ![NextFile] = @ + 1]
    /\ dispatchCount' = [dispatchCount EXCEPT ![NextFile] = @ + 1]
    /\ pc' = "extract"
    /\ UNCHANGED <<inputs, unitVars, mfExposesInput, mfConfigPathInput, mfBranch, configFiles,
                   cfgIdx, tasks, newFiles, results, errors, rawResults, written, printed,
                   fatal>>

\* lines 522-529 and 534-538: a new file of another suffix is an error
LoopUnknownSuffix ==
    /\ pc = "loop"
    /\ fileQueue # <<>>
    /\ ~AlreadyProcessed(NextFile)
    /\ PathExtname(NextFile) \notin JsExtensions \cup TsExtensions
    /\ currentFile' = NextFile
    /\ fileQueue' = Tail(fileQueue)
    /\ processedFiles' = processedFiles \cup {NextFile}
    /\ takes' = [takes EXCEPT ![NextFile] = @ + 1]
    /\ dispatchCount' = [dispatchCount EXCEPT ![NextFile] = @ + 1]
    /\ errors' = Append(errors, Error("unknown entry file type", NextFile))
    /\ UNCHANGED <<inputs, unitVars, pc, mfExposesInput, mfConfigPathInput, mfBranch, configFiles,
                   cfgIdx, tasks, newFiles, results, rawResults, written, printed, fatal>>

\* a mutant of CatchFatal: the extractor call has a try of its own and the loop
\* goes on
CatchAndContinue ==
    /\ errors' = Append(errors, Error("fatal", currentFile))
    /\ fatal' = [caught |-> TRUE, file |-> currentFile, queue |-> fileQueue,
                 processed |-> processedFiles, nerrors |-> Len(errors)]
    /\ pc' = "loop"

\* lines 542-545: the one catch of main(), around the whole analysis
CatchFatal ==
    /\ errors' = Append(errors, Error("fatal", currentFile))
    /\ fatal' = [caught |-> TRUE, file |-> currentFile, queue |-> fileQueue,
                 processed |-> processedFiles, nerrors |-> Len(errors)]
    /\ pc' = "aggregate"

\* the extractor either returns to line 538 or awaits resolveModulePath
AfterBody(found) == IF found = <<>> THEN "loop" ELSE "resolve"

\* parseJsFile, lines 111-181, up to the first resolveModulePath
ExtractJs ==
    /\ pc = "extract"
    /\ PathExtname(currentFile) \in JsExtensions
    /\ \/ /\ errors' = Append(errors, Error("Could not read JS entry file", currentFile))
          /\ pc' = "loop"
          /\ UNCHANGED <<results, newFiles, fatal>>
       \/ /\ errors' = Append(errors, Error("Babel parse error", currentFile))
          /\ pc' = "loop"
          /\ UNCHANGED <<results, newFiles, fatal>>
       \/ /\ \E exports \in JsExports, found \in NewFileSets :
                /\ results' = PushJsExports(results, exports)
                /\ newFiles' = found
                /\ pc' = AfterBody(found)
          /\ UNCHANGED <<errors, fatal>>
       \/ /\ \E exports \in JsExports : results' = PushJsExports(results, exports)
          /\ CatchFatal
          /\ UNCHANGED newFiles
    /\ UNCHANGED <<inputs, unitVars, mfExposesInput, mfConfigPathInput, mfBranch, configFiles,
                   cfgIdx, tasks, fileQueue, processedFiles, currentFile, rawResults,
                   written, printed, dispatchCount, takes>>

\* parseTsFile, lines 193-279, up to the first resolveModulePath
ExtractTs ==
    /\ pc = "extract"
    /\ PathExtname(currentFile) \in TsExtensions
    /\ \/ /\ errors' = Append(errors, Error("TS Program creation failed", currentFile))
          /\ pc' = "loop"
          /\ UNCHANGED <<results, newFiles, fatal>>
       \/ /\ errors' = Append(errors, Error("TS SourceFile not found", currentFile))
          /\ pc' = "loop"
          /\ UNCHANGED <<results, newFiles, fatal>>
       \/ /\ \E found \in NewFileSets :
                /\ newFiles' = found
                /\ pc' = AfterBody(found)
          /\ errors' = Append(errors, Error("Could not find module symbol", currentFile))
          /\ UNCHANGED <<results, fatal>>
       \/ /\ \E exports \in TsExports, found \in NewFileSets :
                /\ results' = PushTsExports(results, exports)
                /\ newFiles' = found
                /\ pc' = AfterBody(found)
          /\ UNCHANGED <<errors, fatal>>
       \/ /\ \E exports \in TsExports : results' = PushTsExports(results, exports)
          /\ CatchFatal
          /\ UNCHANGED newFiles
    /\ UNCHANGED <<inputs, unitVars, mfExposesInput, mfConfigPathInput, mfBranch, configFiles,
                   cfgIdx, tasks, fileQueue, processedFiles, currentFile, rawResults,
                   written, printed, dispatchCount, takes>>

\* lines 182-187 / 280-285 and 538: the resolved files join the worklist
ExtractReturn ==
    /\ pc = "resolve"
    /\ fileQueue' = SetAddAll(fileQueue, newFiles)
    /\ newFiles' = <<>>
    /\ pc' = "loop"
    /\ UNCHANGED <<inputs, unitVars, mfExposesInput, mfConfigPathInput, mfBranch, configFiles,
                   cfgIdx, tasks, processedFiles, currentFile, results, errors,
                   rawResults, written, printed, dispatchCount, takes, fatal>>

\* lines 88, 94, 98: fs.stat rejects inside resolveModulePath
ExtractReturnThrows ==
    /\ pc = "resolve"
    /\ newFiles' = <<>>
    /\ CatchFatal
    /\ UNCHANGED <<inputs, unitVars, mfExposesInput, mfConfigPathInput, mfBranch, configFiles,
                   cfgIdx, tasks, fileQueue, processedFiles, currentFile, results,
                   rawResults, written, printed, dispatchCount, takes>>

-----------------------------------------------------------------------------
(* The report, lines 548-589.                                              *)

\* lines 548-566: processResults on the three buckets, then finalReport, which
\* shares the bucket objects with results
ProcessResults ==
    /\ pc = "aggregate"
    /\ rawResults' = results
    /\ results' = [b \in Buckets |-> processResults(results[b])]
    /\ pc' = "ensureDir"
    /\ UNCHANGED <<inputs, unitVars, mfExposesInput, mfConfigPathInput, mfBranch, configFiles,
                   cfgIdx, tasks, fileQueue, processedFiles, currentFile, newFiles,
                   errors, written, printed, dispatchCount, takes, fatal>>

\* lines 580-581: after fs.ensureDir, fs.writeJson serialises finalReport
WriteReport ==
    /\ pc = "ensureDir"
    /\ written' = [emitted |-> TRUE, buckets |-> results]
    /\ pc' = "writeFile"
    /\ UNCHANGED <<inputs, unitVars, mfExposesInput, mfConfigPathInput, mfBranch, configFiles,
                   cfgIdx, tasks, fileQueue, processedFiles, currentFile, newFiles,
                   results, errors, rawResults, printed, dispatchCount, takes, fatal>>

\* lines 583-589: fs.ensureDir rejects, and the report is only printed
WriteFailsPrintReport ==
    /\ pc = "ensureDir"
    /\ printed' = [emitted |-> TRUE, buckets |-> results]
    /\ pc' = "done"
    /\ UNCHANGED <<inputs, unitVars, mfExposesInput, mfConfigPathInput, mfBranch, configFiles,
                   cfgIdx, tasks, fileQueue, processedFiles, currentFile, newFiles,
                   results, errors, rawResults, written, dispatchCount, takes, fatal>>

\* lines 582-589: after the write, finalReport is printed
PrintReport ==
    /\ pc = "writeFile"
    /\ printed' = [emitted |-> TRUE, buckets |-> results]
    /\ pc' = "done"
    /\ UNCHANGED <<inputs, unitVars, mfExposesInput, mfConfigPathInput, mfBranch, configFiles,
                   cfgIdx, tasks, fileQueue, processedFiles, currentFile, newFiles,
                   results, errors, rawResults, written, dispatchCount, takes, fatal>>

Next ==
    \/ ParseArgs
    \/ SeedQueue
    \/ ExplicitExposes
    \/ DiscoverConfigs
    \/ ScanConfig
    \/ \E t \in 1..Len(tasks) : ResumeExposes(t)
    \/ LoopExit
    \/ LoopSkip
    \/ LoopDispatch
    \/ LoopUnknownSuffix
    \/ ExtractJs
    \/ ExtractTs
    \/ ExtractReturn
    \/ ExtractReturnThrows
    \/ ProcessResults
    \/ WriteReport
    \/ WriteFailsPrintReport
    \/ PrintReport

Spec == Init /\ [][Next]_vars

-----------------------------------------------------------------------------
(* Properties of main().                                                   *)

\* C1: the loop dispatches every file at most once: a file is in processedFiles
\* exactly when it was dispatched once, and every further removal of it from
\* the worklist is a skip
C1_DispatchedAtMostOnce ==
    \A f \in ExistingFiles :
        /\ dispatchCount[f] <= 1
        /\ (f \in processedFiles <=> dispatchCount[f] = 1)
        /\ takes[f] >= dispatchCount[f]

\* a handled file came back into the worklist and was skipped
C1_Witness ==
    \E f \in ExistingFiles : takes[f] >= 2 /\ dispatchCount[f] = 1

\* what a bucket of an emitted report must satisfy
BucketConsistent(b) ==
    /\ Range(b.list) = Range(b.documentedList) \cup Range(b.undocumentedList)
    /\ Range(b.documentedList) \cap Range(b.undocumentedList) = {}
    /\ b.total = Len(b.list)
    /\ b.documented = Len(b.documentedList)
    /\ b.undocumented = Len(b.undocumentedList)

\* C2: in the report as written to the file and as printed, every bucket has
\* list = documentedList + undocumentedList, the two disjoint, and the three
\* counts equal to the lengths of the three lists
C2_EmittedReportConsistent ==
    \A report \in {written, printed} :
        report.emitted => \A b \in Buckets : BucketConsistent(report.buckets[b])

\* C5, as claimed: the explicit branch runs exactly when the override is given
\* and the config path is not; with both or neither, discovery runs
C5_ExplicitOnlyWithoutConfigPath ==
    mfBranch # "none" =>
        (mfBranch = "explicit" <=> (argv.mfExposes.given /\ ~argv.mfConfig.given))

\* C5, amended: the explicit branch runs exactly when the override is given,
\* with or without a config path, and the config path is used only without it
C5_ExplicitWheneverOverrideGiven ==
    /\ mfBranch # "none" =>
          /\ mfBranch = "explicit" <=> argv.mfExposes.given
          /\ mfBranch = "discovery" <=> ~argv.mfExposes.given
    /\ pc \notin {"start"} =>
          (mfConfigPathInput.given <=> (argv.mfConfig.given /\ ~argv.mfExposes.given))

\* both flags were given and the mapping was processed
C5_Witness ==
    /\ argv.mfExposes.given /\ argv.mfConfig.given
    /\ mfBranch = "explicit"
    /\ results.mf.list # <<>>

Finalized == pc \in {"ensureDir", "writeFile", "done"}

\* C6, as claimed: after an extractor threw, every file that was in the worklist
\* at that moment has been dispatched by the time the report is finalized
C6_LoopSurvivesThrow ==
    (fatal.caught /\ Finalized) => \A f \in Range(fatal.queue) : f \in processedFiles

\* C6, amended: the throw ends the loop: main() goes on to the report, no file
\* is dispatched any more, the catch has added one entry to errors, and the
\* report is emitted
C6_ThrowEndsLoop ==
    fatal.caught =>
        /\ pc \in {"aggregate", "ensureDir", "writeFile", "done"}
        /\ processedFiles = fatal.processed
        /\ \A f \in Range(fatal.queue) \ fatal.processed : dispatchCount[f] = 0
        /\ Len(errors) > fatal.nerrors
        /\ errors[fatal.nerrors + 1] = Error("fatal", fatal.file)
        /\ pc = "done" => printed.emitted

\* an extractor threw with a file still waiting, and the report was printed
C6_Witness ==
    /\ fatal.caught
    /\ pc = "done"
    /\ printed.emitted
    /\ \E f \in Range(fatal.queue) : f \notin processedFiles

\* the entries handed to processExposesObjectLiteral or processExposesObject
ExposureEntries ==
    IF mfBranch = "explicit"
    THEN { [key |-> e.key, isString |-> e.value.type = "string", path |-> e.value.path] :
             e \in Range(mfExposesInput.entries) }
    ELSE UNION { { [key |-> p.key, isString |-> p.value.type = "StringLiteral",
                    path |-> p.value.path] :
                   p \in { q \in Range(tasks[t].properties) :
                             q.type = "ObjectProperty" /\ q.key # <<>> } } :
                 t \in 1..Len(tasks) }

LoopStarted == pc \in {"loop", "extract", "resolve", "aggregate"} \/ Finalized

\* C7: once the loop has started, every exposure entry is in mf.list and
\* mf.undocumentedList and not in mf.documentedList, every entry whose string
\* target exists has the target in the worklist or the processed set, and at
\* the end the target is in processedFiles
C7_ExposureTargetsQueuedBeforeLoop ==
    LoopStarted =>
        \A e \in ExposureEntries :
            /\ e.key \in Range(results.mf.list)
            /\ e.key \in Range(results.mf.undocumentedList)
            /\ e.key \notin Range(results.mf.documentedList)
            /\ (e.isString /\ PathExists(PathResolve(PackageRoot, e.path))) =>
                  /\ PathResolve(PackageRoot, e.path) \in Range(fileQueue) \cup processedFiles
                  /\ (Finalized /\ ~fatal.caught) =>
                        PathResolve(PackageRoot, e.path) \in processedFiles

\* C11, as claimed: no path is in the worklist and in the processed set at once
C11_WorklistDisjointFromProcessed == Range(fileQueue) \cap processedFiles = {}

\* C11, amended: the worklist is a Set, so it holds a path once, but line 538
\* adds to it without looking at processedFiles, and a path can be in both; the
\* test of line 524 then drops it: when the loop removes a processed path it
\* dispatches nothing and leaves processedFiles, the results and the errors as
\* they are
C11_ProcessedFileInWorklistIsSkipped ==
    /\ [](\A i, j \in 1..Len(fileQueue) : fileQueue[i] = fileQueue[j] => i = j)
    /\ [][(pc = "loop" /\ fileQueue # <<>> /\ Head(fileQueue) \in processedFiles) =>
            /\ fileQueue' = Tail(fileQueue)
            /\ pc' = "loop"
            /\ UNCHANGED <<processedFiles, dispatchCount, results, errors>>]_vars

\* an extractor has put a file that was dispatched before back into the worklist
C11_Witness ==
    /\ pc = "loop"
    /\ \E f \in Range(fileQueue) \cap processedFiles : dispatchCount[f] = 1
    /\ tasks = <<>>

\* C12: once the loop has started, no processExposesObject call started by
\* parseMfExports is still to make its pushes into fileQueue, results.mf or
\* results.errors, so that only the loop touches them from then on
C12_ScanCompleteBeforeLoop ==
    LoopStarted => \A t \in 1..Len(tasks) : tasks[t].at > Len(tasks[t].properties)

-----------------------------------------------------------------------------
(* processResults on its own: the extractors push, then the three buckets  *)
(* are aggregated.                                                         *)

MaxPushes == 3

PushCount == Len(results.js.list) + Len(results.ts.list) + Len(results.mf.list)

AggInit ==
    /\ NoInputs
    /\ MainAt("analysis")
    /\ ExposesUnitIdle /\ ResolveUnitIdle /\ OriginUnitIdle /\ WalkUnitIdle

aggFixed == <<inputs, unitVars, mfExposesInput, mfConfigPathInput, mfBranch,
              configFiles, cfgIdx, tasks, fileQueue, processedFiles, currentFile,
              newFiles, errors, written, printed, dispatchCount, takes, fatal>>

\* parseJsFile records one export, lines 147-149
AggPushJs ==
    /\ pc = "analysis"
    /\ PushCount < MaxPushes
    /\ \E name \in {"foo", "bar"}, hasDocs \in BOOLEAN :
          results' = PushApi(results, "js", name, hasDocs)
    /\ UNCHANGED <<aggFixed, pc, rawResults>>

\* parseTsFile records one exported symbol, lines 256-269
AggPushTs ==
    /\ pc = "analysis"
    /\ PushCount < MaxPushes
    /\ \E name \in {"foo", "bar"}, typeOnly, valueFlag, typeFlag, hasDocs \in BOOLEAN :
          results' = PushTsSymbol(results,
                                  TsSymbol(name, typeOnly, valueFlag, typeFlag, hasDocs))
    /\ UNCHANGED <<aggFixed, pc, rawResults>>

\* an exposure entry is recorded, lines 294-295 and 336-337
AggPushMf ==
    /\ pc = "analysis"
    /\ PushCount < MaxPushes
    /\ \E key \in {KeyA, KeyB} : results' = PushApi(results, "mf", key, FALSE)
    /\ UNCHANGED <<aggFixed, pc, rawResults>>

\* the analysis phase ends
AggEndAnalysis ==
    /\ pc = "analysis"
    /\ pc' = "aggregate"
    /\ UNCHANGED <<aggFixed, results, rawResults>>

AggNext ==
    \/ AggPushJs
    \/ AggPushTs
    \/ AggPushMf
    \/ AggEndAnalysis
    \/ ProcessResults

SpecAgg == AggInit /\ [][AggNext]_vars

\* index of the first occurrence of name in list
FirstAt(list, name) == CHOOSE i \in 1..Len(list) :
    list[i] = name /\ \A j \in 1..(i - 1) : list[j] # name

\* out holds every name of raw once, in the order of the first occurrences
FirstOccurrences(out, raw) ==
    /\ Range(out) = Range(raw)
    /\ \A i, j \in 1..Len(out) : i < j => FirstAt(raw, out[i]) < FirstAt(raw, out[j])

\* C3: after processResults, a name pushed both as documented and as
\* undocumented is in documentedList only, and a name pushed only as
\* undocumented is in undocumentedList
C3_DocumentedWins ==
    pc = "ensureDir" =>
        \A b \in Buckets :
            /\ \A n \in Range(rawResults[b].documentedList) :
                  /\ n \in Range(results[b].documentedList)
                  /\ n \notin Range(results[b].undocumentedList)
            /\ \A n \in Range(rawResults[b].undocumentedList)
                        \ Range(rawResults[b].documentedList) :
                  /\ n \in Range(results[b].undocumentedList)
                  /\ n \notin Range(results[b].documentedList)

\* a name was pushed as undocumented first and as documented later, beside a
\* name that was only pushed as undocumented
C3_Witness ==
    /\ pc = "ensureDir"
    /\ rawResults.js.undocumentedList = <<"foo", "bar">>
    /\ rawResults.js.documentedList = <<"foo">>
    /\ results.js.documentedList = <<"foo">>
    /\ results.js.undocumentedList = <<"bar">>

\* C4: after processResults, list and documentedList hold each pushed name
\* once, in the order of the first occurrences in the raw lists
C4_FirstOccurrenceOrder ==
    pc = "ensureDir" =>
        \A b \in Buckets :
            /\ FirstOccurrences(results[b].list, rawResults[b].list)
            /\ FirstOccurrences(results[b].documentedList, rawResults[b].documentedList)

\* a raw list with a repeated name around another one
C4_Witness ==
    /\ pc = "ensureDir"
    /\ rawResults.js.list = <<"foo", "bar", "foo">>
    /\ results.js.list = <<"foo", "bar">>
    /\ rawResults.js.documentedList = <<"foo", "bar", "foo">>

-----------------------------------------------------------------------------
(* isExposesObject on its own: an object literal is written down property  *)
(* by property and then handed to isExposesObject.                         *)

MaxProps == 10

\* the members an object literal is built from: a key that begins with ./, a
\* key that does not, and a member that is no ObjectProperty
Members == { Prop(KeyA, OtherValue), Prop(KeyName, OtherValue), SpreadElement }

ExposesInit ==
    /\ NoInputs
    /\ MainAt("idle")
    /\ nodeGiven \in { ObjectExpression(<<>>),
                       [type |-> "ArrayExpression", properties |-> <<>>] }
    /\ exposesLike = NotApplied
    /\ ResolveUnitIdle /\ OriginUnitIdle /\ WalkUnitIdle

exposesFixed == <<mainVars, fsFiles, fsDirs, extsGiven, resolved, exportsSeen,
                  reExportedApis, walkVars>>

\* one more member in the literal
AddMember ==
    /\ ~exposesLike.applied
    /\ nodeGiven.type = "ObjectExpression"
    /\ Len(nodeGiven.properties) < MaxProps
    /\ \E m \in Members :
          nodeGiven' = [nodeGiven EXCEPT !.properties = Append(@, m)]
    /\ UNCHANGED <<exposesFixed, exposesLike>>

\* line 397: the heuristic traversal asks isExposesObject about the literal
AskIsExposesObject ==
    /\ ~exposesLike.applied
    /\ exposesLike' = [applied |-> TRUE, value |-> isExposesObject(nodeGiven)]
    /\ UNCHANGED <<exposesFixed, nodeGiven>>

ExposesNext == AddMember \/ AskIsExposesObject

SpecExposes == ExposesInit /\ [][ExposesNext]_vars

\* the positions of the keys of a literal, and of its keys that begin with ./
KeyPositions(props) == { i \in 1..Len(props) : props[i].type = "ObjectProperty" }
DotSlashPositions(props) ==
    { i \in KeyPositions(props) :
        Len(props[i].key) >= 2 /\ props[i].key[1] = "." /\ props[i].key[2] = "/" }

\* C8: isExposesObject accepts an object literal exactly when it has a key and
\* more than half of its keys begin with ./ : with n keys, k of them with the
\* prefix, it answers true iff n >= 1 and 2 * k > n
C8_StrictMajority ==
    exposesLike.applied =>
        LET n == Cardinality(KeyPositions(nodeGiven.properties))
            k == Cardinality(DotSlashPositions(nodeGiven.properties))
        IN  exposesLike.value <=>
                (nodeGiven.type = "ObjectExpression" /\ n >= 1 /\ 2 * k > n)

\* 6 of 10 keys begin with ./ and the literal is accepted
C8_Witness ==
    /\ exposesLike.applied
    /\ exposesLike.value
    /\ Cardinality(KeyPositions(nodeGiven.properties)) = 10
    /\ Cardinality(DotSlashPositions(nodeGiven.properties)) = 6

-----------------------------------------------------------------------------
(* resolveModulePath on its own, over a small file system.  Here a path is *)
(* a string.                                                               *)

\* `${absolutePath}${ext}`
WithSuffix(absolutePath, ext) == absolutePath \o ext

\* path.join(absolutePath, `index${ext}`)
IndexIn(absolutePath, ext) == absolutePath \o "/index" \o ext

\* path.resolve(baseDir, relativePath) for a relativePath of one segment
ResolveIn(baseDir, relativePath) == baseDir \o "/" \o relativePath

\* await fs.pathExists(p) && (await fs.stat(p)).isFile()
IsExistingFile(p) == p \in (fsFiles \cup fsDirs) /\ p \in fsFiles

RECURSIVE FirstWithSuffix(_, _, _)
\* the loop of lines 86-91, from extension i on
FirstWithSuffix(absolutePath, exts, i) ==
    IF i > Len(exts) THEN NotResolved
    ELSE IF IsExistingFile(WithSuffix(absolutePath, exts[i]))
         THEN [done |-> TRUE, found |-> TRUE, path |-> WithSuffix(absolutePath, exts[i])]
         ELSE FirstWithSuffix(absolutePath, exts, i + 1)

RECURSIVE FirstIndexFile(_, _, _)
\* the loop of lines 92-97, from extension i on
FirstIndexFile(absolutePath, exts, i) ==
    IF i > Len(exts) THEN NotResolved
    ELSE IF IsExistingFile(IndexIn(absolutePath, exts[i]))
         THEN [done |-> TRUE, found |-> TRUE, path |-> IndexIn(absolutePath, exts[i])]
         ELSE FirstIndexFile(absolutePath, exts, i + 1)

\* a mutant of resolveModulePath: the path as written is tried first
resolveModulePathVerbatimFirst(baseDir, relativePath, exts) ==
    LET absolutePath == ResolveIn(baseDir, relativePath)
        bySuffix == FirstWithSuffix(absolutePath, exts, 1)
        byIndex == FirstIndexFile(absolutePath, exts, 1)
    IN  IF IsExistingFile(absolutePath)
        THEN [done |-> TRUE, found |-> TRUE, path |-> absolutePath]
        ELSE IF bySuffix.found THEN bySuffix
        ELSE IF byIndex.found THEN byIndex
        ELSE [done |-> TRUE, found |-> FALSE, path |-> ""]

\* resolveModulePath(baseDir, relativePath, extensions); found = FALSE is null
resolveModulePath(baseDir, relativePath, exts) ==
    LET absolutePath == ResolveIn(baseDir, relativePath)
        bySuffix == FirstWithSuffix(absolutePath, exts, 1)
        byIndex == FirstIndexFile(absolutePath, exts, 1)
    IN  IF bySuffix.found THEN bySuffix
        ELSE IF byIndex.found THEN byIndex
        ELSE IF IsExistingFile(absolutePath)
             THEN [done |-> TRUE, found |-> TRUE, path |-> absolutePath]
             ELSE [done |-> TRUE, found |-> FALSE, path |-> ""]

\* the extensions argument of lines 181 and 279
Extensions == <<".js", ".mjs", ".cjs", ".ts", ".tsx", ".d.ts">>

ExtensionLists == { <<>>, <<".js">>, <<".ts">>, <<".js", ".ts">>, <<".ts", ".js">>,
                    Extensions }

BaseDir == "/pkg/src"
Specifier == "x"

\* the paths that may exist: x itself, x with a suffix, an index file in x
SuffixPaths == { "/pkg/src/x.js", "/pkg/src/x.ts" }
IndexPaths == { "/pkg/src/x/index.js", "/pkg/src/x/index.ts" }
VerbatimPath == "/pkg/src/x"

\* a file system: no path is both a file and a directory, and x holds an index
\* entry only when x is a directory
ResolveInit ==
    /\ NoInputs
    /\ MainAt("idle")
    /\ ExposesUnitIdle /\ OriginUnitIdle /\ WalkUnitIdle
    /\ fsFiles \in SUBSET (SuffixPaths \cup IndexPaths \cup {VerbatimPath})
    /\ fsDirs \in SUBSET (SuffixPaths \cup IndexPaths \cup {VerbatimPath})
    /\ fsFiles \cap fsDirs = {}
    /\ (fsFiles \cup fsDirs) \cap IndexPaths # {} => VerbatimPath \in fsDirs
    /\ extsGiven \in ExtensionLists
    /\ resolved = NotResolved

\* lines 183 and 281: a relative specifier is resolved
Resolve ==
    /\ ~resolved.done
    /\ resolved' = resolveModulePath(BaseDir, Specifier, extsGiven)
    /\ UNCHANGED <<mainVars, nodeGiven, exposesLike, fsFiles, fsDirs, extsGiven,
                   exportsSeen, reExportedApis, walkVars>>

ResolveNext == Resolve

SpecResolve == ResolveInit /\ [][ResolveNext]_vars

\* the candidates in the order of the claim: the suffixes, the index files,
\* the path as written
Candidates(exts) ==
    [i \in 1..(2 * Len(exts) + 1) |->
        IF i <= Len(exts) THEN "/pkg/src/x" \o exts[i]
        ELSE IF i <= 2 * Len(exts) THEN "/pkg/src/x/index" \o exts[i - Len(exts)]
        ELSE "/pkg/src/x"]

\* C9: resolveModulePath returns the first candidate that is an existing file,
\* in the order suffixes, index files, verbatim path, and null iff none is
C9_FirstMatchWins ==
    resolved.done =>
        LET cands == Candidates(extsGiven)
            hits == { i \in 1..Len(cands) : cands[i] \in fsFiles }
        IN  /\ resolved.found <=> hits # {}
            /\ resolved.found =>
                  \E i \in hits : /\ resolved.path = cands[i]
                                  /\ \A j \in hits : i <= j

\* x.js and x.ts are both files, .ts comes first in the list, and x.ts is returned
C9_Witness ==
    /\ resolved.done
    /\ extsGiven = <<".ts", ".js">>
    /\ {"/pkg/src/x.js", "/pkg/src/x.ts", "/pkg/src/x"} \subseteq fsFiles
    /\ resolved.path = "/pkg/src/x.ts"

-----------------------------------------------------------------------------
(* The origin test of parseTsFile on its own.  Here a path is the sequence *)
(* of its separators and name pieces, so that startsWith and includes are  *)
(* the string operations of the code.                                      *)

\* String.prototype.includes
Includes(s, part) ==
    \E i \in 1..(Len(s) + 1 - Len(part)) : SubSeq(s, i, i + Len(part) - 1) = part

\* `${path.sep}node_modules${path.sep}`
NodeModulesSegment == <<"/", "node_modules", "/">>

\* path.resolve(results.packagePath)
NormalizedRoot == <<"/", "pkg">>

\* declaration sites: in the package, vendored inside the package, in a hoisted
\* node_modules outside it, in another directory, and in a sibling directory
\* whose name begins with the package's name (/pkg-ui)
SiteInside == <<"/", "pkg", "/", "src", "/", "a.ts">>
SiteVendored == <<"/", "pkg", "/", "node_modules", "/", "dep", "/", "index.d.ts">>
SiteHoisted == <<"/", "node_modules", "/", "dep", "/", "index.d.ts">>
SiteElsewhere == <<"/", "lib", "/", "b.ts">>
SiteSibling == <<"/", "pkg", "-ui", "/", "src", "/", "c.ts">>

Sites == {SiteInside, SiteVendored, SiteHoisted, SiteElsewhere, SiteSibling}

MaxSites == 2

\* a mutant of symbolBelongsToPackage: every instead of some
symbolBelongsToPackageEvery(declarations, packageRoot) ==
    IF packageRoot = <<>> THEN TRUE
    ELSE IF Len(declarations) = 0 THEN TRUE
    ELSE \A d \in 1..Len(declarations) :
            /\ StartsWith(declarations[d], packageRoot)
            /\ ~Includes(declarations[d], NodeModulesSegment)

\* symbolBelongsToPackage(symbol, packageRoot), on symbol.declarations || []
symbolBelongsToPackage(declarations, packageRoot) ==
    IF packageRoot = <<>> THEN TRUE
    ELSE IF Len(declarations) = 0 THEN TRUE
    ELSE \E d \in 1..Len(declarations) :
            /\ StartsWith(declarations[d], packageRoot)
            /\ ~Includes(declarations[d], NodeModulesSegment)

\* lines 241-243: the symbol the export is classified by
TargetDeclarations(symbol) ==
    IF symbol.isAlias THEN symbol.aliased ELSE symbol.declarations

DeclarationLists == UNION { [1..k -> Sites] : k \in 0..MaxSites }

\* an exported symbol: declared here, or an alias (an export specifier in the
\* module) of a symbol declared at the aliased sites
ExportedSymbols ==
    { [name |-> n, isAlias |-> FALSE, declarations |-> d, aliased |-> <<>>] :
        n \in {"foo", "Bar"}, d \in DeclarationLists }
    \cup
    { [name |-> n, isAlias |-> TRUE, declarations |-> <<SiteInside>>, aliased |-> d] :
        n \in {"foo", "Bar"}, d \in DeclarationLists }

OriginInit ==
    /\ NoInputs
    /\ MainAt("idle")
    /\ ExposesUnitIdle /\ ResolveUnitIdle /\ WalkUnitIdle
    /\ exportsSeen = <<>>
    /\ reExportedApis = {}

\* lines 237-248: one symbol of checker.getExportsOfModule, whose names are
\* distinct
ClassifyExport ==
    /\ \E symbol \in ExportedSymbols :
          /\ \A i \in 1..Len(exportsSeen) : exportsSeen[i].name # symbol.name
          /\ exportsSeen' = Append(exportsSeen, symbol)
          /\ reExportedApis' =
                IF ~symbolBelongsToPackage(TargetDeclarations(symbol), NormalizedRoot)
                THEN reExportedApis \cup {symbol.name}
                ELSE reExportedApis
    /\ UNCHANGED <<mainVars, nodeGiven, exposesLike, fsFiles, fsDirs, extsGiven, resolved,
                   walkVars>>

OriginNext == ClassifyExport

SpecOrigin == OriginInit /\ [][OriginNext]_vars

\* the site is a file in the package root directory or below it
UnderPackageRoot(site) == StartsWith(site, NormalizedRoot \o <<"/">>)

\* the site is below a directory named node_modules
UnderNodeModules(site) ==
    \E i \in 2..(Len(site) - 1) :
        site[i] = "node_modules" /\ site[i - 1] = "/" /\ site[i + 1] = "/"

\* C10, as claimed: a name is in reExportedApis exactly when none of the
\* (aliased) symbol's declaration sites is under the package root or one of
\* them is under node_modules; stated for the symbols that have a site and
\* none in a sibling directory, where "under the package root" is not in doubt
C10_ExternalIfAnySiteVendored ==
    \A i \in 1..Len(exportsSeen) :
        LET sites == Range(TargetDeclarations(exportsSeen[i]))
        IN  (sites # {} /\ SiteSibling \notin sites) =>
                (exportsSeen[i].name \in reExportedApis <=>
                    \/ \A site \in sites : ~UnderPackageRoot(site)
                    \/ \E site \in sites : UnderNodeModules(site))

\* C10, amended: a name is in reExportedApis exactly when the (aliased) symbol
\* has a declaration site and each of its sites is under node_modules or has a
\* path that does not begin with the package root's path
C10_ExternalIffNoSiteInPackage ==
    \A i \in 1..Len(exportsSeen) :
        LET sites == Range(TargetDeclarations(exportsSeen[i]))
        IN  exportsSeen[i].name \in reExportedApis <=>
                /\ sites # {}
                /\ \A site \in sites :
                      \/ UnderNodeModules(site)
                      \/ SubSeq(site, 1, 2) # <<"/", "pkg">>

\* a symbol declared in the package and under node_modules was classified, and
\* it is not in reExportedApis
C10_Witness ==
    \E i \in 1..Len(exportsSeen) :
        /\ Range(TargetDeclarations(exportsSeen[i])) = {SiteInside, SiteVendored}
        /\ exportsSeen[i].name \notin reExportedApis

-----------------------------------------------------------------------------
(* The loop of lines 520-539 and the aggregation on their own: the files,  *)
(* what each of them exports and re-exports, and the seeds are fixed, and  *)
(* main() runs twice, the seeds standing in the worklist in two orders.    *)

RECURSIVE Orders(_)
\* the orders in which the members of S can be added to a Set
Orders(S) ==
    IF S = {} THEN { <<>> }
    ELSE UNION { { <<f>> \o o : o \in Orders(S \ {f}) } : f \in S }

\* per file, the files its relative re-exports resolve to; a file that is
\* neither a value-dialect nor a typed module is not parsed
ReExportGraphs ==
    { [f \in ExistingFiles |-> IF f = FileA THEN a ELSE IF f = FileB THEN b ELSE <<>>] :
        a \in NewFileSets, b \in NewFileSets }

\* per file, the exports its extractor finds
ExportTables ==
    { [f \in ExistingFiles |-> IF f = FileA THEN a ELSE IF f = FileB THEN b ELSE <<>>] :
        a \in JsExports, b \in TsExports }

\* the seeds of the run in progress, in the order they are added
Seeds == IF firstRun.done THEN seedOrders[2] ELSE seedOrders[1]

WalkInit ==
    /\ NoInputs
    /\ MainAt("seed")
    /\ ExposesUnitIdle /\ ResolveUnitIdle /\ OriginUnitIdle
    /\ reExports \in ReExportGraphs
    /\ fileExports \in ExportTables
    /\ throwing \in { {}, {FileA}, {FileB} }
    /\ seedOrders \in UNION { Orders(S) \X Orders(S) : S \in SUBSET ExistingFiles }
    /\ firstRun = NoOutcome

\* lines 497-511: the entry points and the exposure targets seed the worklist
WalkSeed ==
    /\ pc = "seed"
    /\ fileQueue' = SetAddAll(<<>>, Seeds)
    /\ pc' = "loop"
    /\ UNCHANGED <<inputs, unitVars, mfExposesInput, mfConfigPathInput, mfBranch, configFiles,
                   cfgIdx, tasks, processedFiles, currentFile, newFiles, results, errors,
                   rawResults, written, printed, dispatchCount, takes, fatal>>

\* what parseJsFile or parseTsFile records for the file
WalkPushes(file, res) ==
    IF PathExtname(file) \in JsExtensions
    THEN PushJsExports(res, fileExports[file])
    ELSE PushTsExports(res, fileExports[file])

\* lines 530-538: the extractor returns and its files join the worklist
WalkExtract ==
    /\ pc = "extract"
    /\ currentFile \notin throwing
    /\ results' = WalkPushes(currentFile, results)
    /\ fileQueue' = SetAddAll(fileQueue, reExports[currentFile])
    /\ pc' = "loop"
    /\ UNCHANGED <<inputs, unitVars, mfExposesInput, mfConfigPathInput, mfBranch, configFiles,
                   cfgIdx, tasks, processedFiles, currentFile, newFiles, errors,
                   rawResults, written, printed, dispatchCount, takes, fatal>>

\* lines 530-532 and 542-545: the extractor throws while it resolves the
\* re-exports, after it has recorded the exports
WalkExtractThrows ==
    /\ pc = "extract"
    /\ currentFile \in throwing
    /\ results' = WalkPushes(currentFile, results)
    /\ CatchFatal
    /\ UNCHANGED <<inputs, unitVars, mfExposesInput, mfConfigPathInput, mfBranch, configFiles,
                   cfgIdx, tasks, fileQueue, processedFiles, currentFile, newFiles,
                   rawResults, written, printed, dispatchCount, takes>>

\* main() is run again on the same package, the seeds in their second order
WalkAgain ==
    /\ pc = "ensureDir"
    /\ ~firstRun.done
    /\ firstRun' = [done |-> TRUE, thrown |-> fatal.caught,
                    processed |-> processedFiles, buckets |-> results]
    /\ pc' = "seed"
    /\ fileQueue' = <<>>
    /\ processedFiles' = {}
    /\ currentFile' = NoFile
    /\ newFiles' = <<>>
    /\ results' = EmptyResults
    /\ errors' = <<>>
    /\ rawResults' = EmptyResults
    /\ dispatchCount' = [f \in ExistingFiles |-> 0]
    /\ takes' = [f \in ExistingFiles |-> 0]
    /\ fatal' = NoFatal
    /\ UNCHANGED <<inputs, mfExposesInput, mfConfigPathInput, mfBranch, configFiles, cfgIdx,
                   tasks, written, printed, nodeGiven, exposesLike, fsFiles, fsDirs,
                   extsGiven, resolved, exportsSeen, reExportedApis, reExports,
                   fileExports, throwing, seedOrders>>

WalkNext ==
    \/ WalkSeed
    \/ LoopExit
    \/ LoopSkip
    \/ LoopDispatch
    \/ LoopUnknownSuffix
    \/ WalkExtract
    \/ WalkExtractThrows
    \/ ProcessResults
    \/ WalkAgain

SpecWalk == WalkInit /\ [][WalkNext]_vars

\* main() is one chain of awaits on a running event loop: a step that can be
\* taken is taken
SpecWalkFair == SpecWalk /\ WF_vars(WalkNext)

RECURSIVE ReachableFrom(_)
\* the files reachable from S through the resolved re-exports
ReachableFrom(S) ==
    LET T == S \cup UNION { Range(reExports[f]) : f \in S }
    IN  IF T = S THEN S ELSE ReachableFrom(T)

\* C13: on every set of files and every re-export graph over them, with cycles
\* or without, the loop of each run ends; the loop goes on to the aggregation
\* from its head exactly when the worklist is empty; and when it has ended
\* without a throw the worklist is empty and every file reachable from the
\* seeds is in processedFiles
C13_LoopEndsOnEmptyWorklistWithClosure ==
    /\ <>(firstRun.done /\ pc = "aggregate")
    /\ [][pc = "loop" => (pc' = "aggregate" <=> fileQueue = <<>>)]_vars
    /\ []((pc = "aggregate" /\ ~fatal.caught) =>
            /\ fileQueue = <<>>
            /\ ReachableFrom(Range(Seeds)) \subseteq processedFiles)

\* the loop has ended on a graph with a cycle, having found a file that was
\* no seed
C13_Witness ==
    /\ pc = "aggregate"
    /\ ~fatal.caught
    /\ FileB \in Range(reExports[FileA])
    /\ FileA \in Range(reExports[FileB])
    /\ Range(Seeds) = {FileA}
    /\ processedFiles = {FileA, FileB}

\* both runs have ended, none of them by a throw
BothRunsEnded ==
    /\ pc = "ensureDir"
    /\ firstRun.done
    /\ ~firstRun.thrown
    /\ ~fatal.caught

====
